---- MODULE Spec2Model ----
(***************************************************************************)
(* State-machine model of the nantawat_tool components:                    *)
(*   - FaissVectorStoreComponent  (faiss_vectorstore.py)                   *)
(*   - MilvusVectorSTore          (milvus_vectorstore.py)                  *)
(*   - MongoDBStore               (no_sql_datastore.py)                    *)
(*   - SubprocessComponent, OfficialWebsiteScore, MapRoute                 *)
(*                                (supprocess_component.py,                *)
(*                                 score_web_subp.py,                      *)
(*                                 map_route_component.py)                 *)
(*   - EmbedModelJ, EmbedJina     (embed_components.py)                    *)
(* Every component has its own group of variables and its own              *)
(* specification; a specification leaves the other groups at their         *)
(* initial values.                                                         *)
(***************************************************************************)
EXTENDS Integers, Sequences, FiniteSets, TLC

VARIABLES
    indexFile,  \* FAISS: the file <persist_directory>/<index_name>.faiss
    fOut,       \* FAISS: what the last get_results returned
    fRun,       \* FAISS: what the last get_results did (inputs, status, calls)
    fltIn,      \* filter check: engine pairs and threshold handed to the filter
    fltOut,     \* filter check: the records the filter produced
    cfgF,       \* FAISS build_config: field -> its "show" flag
    callF,      \* FAISS: the last update_build_config call and the flags before it
    cfgM,       \* Milvus build_config: field -> its "show" flag
    callM,      \* Milvus: the last update_build_config call and the flags before it
    mCache,     \* MongoDB: the shared component cache, database_url -> client
    mBuilt,     \* MongoDB: clients constructed so far per database_url
    mInst,      \* MongoDB: the component instance's client and collection
    mStore,     \* MongoDB: the documents of every collection, in storage order
    mRun,       \* MongoDB: what the last operation did
    vServer,    \* Milvus: the service's databases, session context, collections
    vCached,    \* Milvus: the instance's cached vector store
    vRun,       \* Milvus: what the last operation did
    lFs,        \* launchers: working directory and the .venv of every directory
    lRun,       \* launchers: what the last operation did
    eClient,    \* embedding: the client build_embeddings returned
    eRun,       \* embedding: what the last operation did
    rProc,      \* MongoDB, concurrent: each invocation of maybe_create_db (position, instance)
    rShared     \* MongoDB, concurrent: the shared cache and the clients constructed

faissVars == <<indexFile, fOut, fRun>>
filterVars == <<fltIn, fltOut>>
configVars == <<cfgF, callF, cfgM, callM>>
mongoVars == <<mCache, mBuilt, mInst, mStore, mRun>>
milvusVars == <<vServer, vCached, vRun>>
launcherVars == <<lFs, lRun>>
embedVars == <<eClient, eRun>>
raceVars == <<rProc, rShared>>
vars == <<faissVars, filterVars, configVars, mongoVars, milvusVars, launcherVars, embedVars, raceVars>>

\* What each component's actions leave alone.
notFaiss == <<filterVars, configVars, mongoVars, milvusVars, launcherVars, embedVars, raceVars>>
notFilter == <<faissVars, configVars, mongoVars, milvusVars, launcherVars, embedVars, raceVars>>
notConfig == <<faissVars, filterVars, mongoVars, milvusVars, launcherVars, embedVars, raceVars>>
notMongo == <<faissVars, filterVars, configVars, milvusVars, launcherVars, embedVars, raceVars>>
notMilvus == <<faissVars, filterVars, configVars, mongoVars, launcherVars, embedVars, raceVars>>
notLauncher == <<faissVars, filterVars, configVars, mongoVars, milvusVars, embedVars, raceVars>>
notEmbed == <<faissVars, filterVars, configVars, mongoVars, milvusVars, launcherVars, raceVars>>
notRace == <<faissVars, filterVars, configVars, mongoVars, milvusVars, launcherVars, embedVars>>

\* ------------------------------------------------------------------ bounds

\* Most documents one Index run normalises its ingest input to.
MaxDocs == 3

\* Most (id, distance) pairs the engine hands to the result filter.
MaxPairs == 3

\* update_build_config calls counted per component (the count saturates).
MaxCalls == 2

\* Most records one MongoDB ingest is given.
MaxRecs == 3

\* Most records one MongoDB bulk update is given.
MaxBulk == 2

\* Most clients constructed per database_url.
MaxClients == 2

\* Invocations of maybe_create_db that run at the same time.
MaxInvocations == 2

\* Most rows a Milvus collection holds.
MaxRows == 2

\* Most texts one embed_documents call is given.
MaxTexts == 2

\* ----------------------------------------------------------- small helpers

Min(a, b) == IF a <= b THEN a ELSE b

RECURSIVE Flatten(_)
Flatten(ss) ==
    IF ss = <<>> THEN <<>> ELSE Head(ss) \o Flatten(Tail(ss))

SeqsUpTo(S, n) == UNION {[1..m -> S] : m \in 0..n}

Range(f) == {f[i] : i \in DOMAIN f}

\* ------------------------------------------------------------ FAISS: data

\* Document metadata: a dict from keys to values.
NoMeta == [k \in {} |-> 0]

SetKey(md, key, v) ==
    [k \in (DOMAIN md) \cup {key} |-> IF k = key THEN v ELSE md[k]]

\* Texts are sequences of characters.
Texts == {<<"a">>, <<"b">>}

\* An item of ingest_data: a Data record, a Document, a DataFrame of rows,
\* or any other object (indexed as its str()).
Item(kind, text, md, rows) ==
    [kind |-> kind, text |-> text, md |-> md, rows |-> rows]

\* Items a list of ingest_data is drawn from.
ListItems ==
    { Item("Data", <<"a">>, SetKey(NoMeta, "faiss_id", 9), <<>>),
      Item("Other", <<"b">>, NoMeta, <<>>),
      Item("DataFrame", <<>>, NoMeta, << <<"b">>, <<"a">> >>) }

Items ==
    ListItems
    \cup { Item("Document", <<"b">>, SetKey(NoMeta, "src", 7), <<>>),
           Item("DataFrame", <<>>, NoMeta, <<>>) }

\* DataFrame.to_data_list: one Data per row.
ToDataList(df) ==
    [i \in 1..Len(df.rows) |-> Item("Data", df.rows[i], NoMeta, <<>>)]

\* "not ingest_data": None, an empty list, or an empty DataFrame.
Falsy(ing) ==
    \/ ing.shape = "none"
    \/ ing.shape = "list" /\ ing.items = <<>>
    \/ ing.shape = "single" /\ ing.items[1].kind = "DataFrame"
                            /\ ing.items[1].rows = <<>>

PrepareIngestData(ing) ==
    IF Falsy(ing) THEN <<>>
    ELSE Flatten([i \in 1..Len(ing.items) |->
                    IF ing.items[i].kind = "DataFrame"
                    THEN ToDataList(ing.items[i])
                    ELSE <<ing.items[i]>>])

\* Data.to_lc_document / pass-through / Document(page_content=str(x)).
ToDocument(it) ==
    IF it.kind \in {"Data", "Document"}
    THEN [page_content |-> it.text, metadata |-> it.md]
    ELSE [page_content |-> it.text, metadata |-> NoMeta]

Documents(ing) ==
    LET prepared == PrepareIngestData(ing)
    IN  [i \in 1..Len(prepared) |-> ToDocument(prepared[i])]

\* ingest_data as the host supplies it: nothing, one object, or a list;
\* kept to inputs that normalise to at most MaxDocs documents.
IngestInputs ==
    {ing \in {[shape |-> "none", items |-> <<>>]}
             \cup {[shape |-> "single", items |-> <<it>>] : it \in Items}
             \cup {[shape |-> "list", items |-> its] :
                     its \in SeqsUpTo(ListItems, MaxDocs)} :
        Len(PrepareIngestData(ing)) <= MaxDocs}

NoIngest == [shape |-> "none", items |-> <<>>]

\* ------------------------------------------------- FAISS: embedding client

CharVal(c) == IF c = "a" THEN 1 ELSE IF c = "b" THEN 3 ELSE 0

\* The embedding of a text (a one-dimensional vector).
RECURSIVE EmbedVec(_)
EmbedVec(text) ==
    IF text = <<>> THEN 0 ELSE CharVal(Head(text)) + EmbedVec(Tail(text))

\* embed_documents: one vector per text; the client may also return no
\* vectors, or fewer vectors than texts.
EmbedDocuments(texts, outcome) ==
    LET all == [i \in 1..Len(texts) |-> EmbedVec(texts[i])]
    IN  IF outcome = "ok" THEN all
        ELSE IF outcome = "empty" THEN <<>>
        ELSE SubSeq(all, 1, Len(all) - 1)

IndexEmbedOutcomes == {"ok", "empty", "short", "raise"}
QueryEmbedOutcomes == {"ok", "raise"}

\* ------------------------------------------------------ FAISS: index file

NoFile == [exists |-> FALSE, entries |-> <<>>]

\* faiss.IndexIDMap(faiss.IndexFlatL2(embedding_dim)): an empty index.
NewIndex == <<>>

\* index.add_with_ids(embeddings, ids)
AddWithIds(index, embeddings, ids) ==
    index \o [i \in 1..Len(ids) |-> [id |-> ids[i], vec |-> embeddings[i]]]

\* faiss.write_index(index, path): the file is overwritten.
WriteIndex(index) == [exists |-> TRUE, entries |-> index]

\* faiss_ids = list(range(len(documents)))
FaissIdsFromOne(documents) == [i \in 1..Len(documents) |-> i]

FaissIds(documents) == [i \in 1..Len(documents) |-> i - 1]

\* A pre-existing file is unlinked and the index is built in a new, empty
\* IndexIDMap: nothing of the old file gets into the new one.
RebuiltIndexAppending(old, embeddings, ids) ==
    AddWithIds(old.entries, embeddings, ids)

RebuiltIndex(old, embeddings, ids) ==
    AddWithIds(NewIndex, embeddings, ids)

\* zip(documents, faiss_ids): each document with metadata["faiss_id"] set.
CombineIndexWithIngestedData(documents, faiss_ids) ==
    [i \in 1..Min(Len(documents), Len(faiss_ids)) |->
        [page_content |-> documents[i].page_content,
         metadata |-> SetKey(documents[i].metadata, "faiss_id", faiss_ids[i])]]

\* docs_to_data: Data(data = metadata plus the text).
DocsToData(docs) ==
    [i \in 1..Len(docs) |-> SetKey(docs[i].metadata, "text", docs[i].page_content)]

\* if index_path.exists(): index_path.unlink(), the first thing
\* build_vector_store does with the file, before the input is prepared.
UnlinkKeeping(old) == old

Unlink(old) == IF old.exists THEN NoFile ELSE old

\* build_vector_store: the status, the file left at the index path and
\* the documents returned.
BuildVectorStore(old, ing, outcome) ==
    LET unlinked == Unlink(old)
        documents == Documents(ing)
        texts == [i \in 1..Len(documents) |-> documents[i].page_content]
        embeddings == EmbedDocuments(texts, outcome)
        faiss_ids == FaissIds(documents)
        failed(st) == [status |-> st, file |-> unlinked, docs |-> <<>>, embedCalls |-> 1]
    IN  IF documents = <<>>
        THEN [status |-> "no_documents", file |-> unlinked, docs |-> <<>>,
              embedCalls |-> 0]
        ELSE IF outcome = "raise" THEN failed("embed_raised")
        ELSE IF embeddings = <<>> THEN failed("embed_failed")
        ELSE IF Len(embeddings) # Len(faiss_ids) THEN failed("add_failed")
        ELSE [status |-> "ok",
              file |-> WriteIndex(RebuiltIndex(old, embeddings, faiss_ids)),
              docs |-> CombineIndexWithIngestedData(documents, faiss_ids),
              embedCalls |-> 1]

\* ---------------------------------------------------------- FAISS: search

\* search_query as the host supplies it: nothing, a non-text object or text.
Query(kind, text) == [kind |-> kind, text |-> text]

Queries ==
    { Query("none", <<>>), Query("nontext", <<>>), Query("str", <<>>),
      Query("str", <<" ", " ">>), Query("str", <<"a">>),
      Query("str", <<" ", "b">>) }

\* str.strip(): leading and trailing whitespace removed.
RECURSIVE LStrip(_)
LStrip(t) ==
    IF t # <<>> /\ Head(t) = " " THEN LStrip(Tail(t)) ELSE t

RECURSIVE RStrip(_)
RStrip(t) ==
    IF t # <<>> /\ t[Len(t)] = " " THEN RStrip(SubSeq(t, 1, Len(t) - 1)) ELSE t

Strip(t) == LStrip(RStrip(t))

\* not q or not isinstance(q, str) or not q.strip()
BlankQueryUnstripped(q) ==
    \/ q.kind = "none"
    \/ q.kind = "str" /\ q.text = <<>>
    \/ q.kind # "str"

BlankQuery(q) ==
    \/ q.kind = "none"
    \/ q.kind = "str" /\ q.text = <<>>
    \/ q.kind # "str"
    \/ Strip(q.text) = <<>>

\* Squared L2 distance of two one-dimensional vectors.
Dist(u, v) == (u - v) * (u - v)

\* The engine's "no match" padding of a result row.
NoMatch == [id |-> -1, dist |-> 1000]

\* index.search(query, k): the k nearest entries by ascending distance,
\* entries at equal distance in any order, padded with NoMatch when the
\* index holds fewer than k vectors. The set of rows the engine may return.
RECURSIVE Nearest(_, _, _, _)
Nearest(index, qv, remaining, k) ==
    IF k = 0 THEN {<<>>}
    ELSE IF remaining = {} THEN {[i \in 1..k |-> NoMatch]}
    ELSE LET d(p) == Dist(qv, index[p].vec)
             best == {p \in remaining : \A r \in remaining : d(p) <= d(r)}
         IN  UNION {{<<[id |-> index[p].id, dist |-> d(p)]>> \o rest :
                        rest \in Nearest(index, qv, remaining \ {p}, k - 1)} :
                    p \in best}

IndexSearch(index, qv, k) == Nearest(index, qv, DOMAIN index, k)

\* The result comprehension: one {faiss_id: id} per pair with id != -1 and
\* distance > similarity_threshold, in the engine's order.
KeepAtThreshold(pair, threshold) ==
    pair.id # -1 /\ pair.dist >= threshold

Keep(pair, threshold) ==
    pair.id # -1 /\ pair.dist > threshold

RECURSIVE FilterResults(_, _)
FilterResults(pairs, threshold) ==
    IF pairs = <<>> THEN <<>>
    ELSE (IF Keep(Head(pairs), threshold)
          THEN <<[faiss_id |-> Head(pairs).id]>>
          ELSE <<>>) \o FilterResults(Tail(pairs), threshold)

\* k = min(self.number_of_results, index.ntotal)
SearchKUncapped(number_of_results, ntotal) == number_of_results

SearchK(number_of_results, ntotal) == Min(number_of_results, ntotal)

NumberOfResults == {-1, 0, 2, MaxDocs + 1}
Thresholds == {0, 4}

\* --------------------------------------------------------- FAISS: actions

RunIdle ==
    [mode |-> "none", status |-> "none", ing |-> NoIngest,
     query |-> Query("none", <<>>), number_of_results |-> 0,
     similarity_threshold |-> 0, k |-> 0, ntotal |-> 0, existed |-> FALSE,
     before |-> 0,
     readIndex |-> FALSE, searched |-> FALSE, embedCalls |-> 0]

FaissInit ==
    /\ indexFile = NoFile
    /\ fOut = <<>>
    /\ fRun = RunIdle

\* get_persist_directory: an unset persist_directory fails every run
\* before the file system is touched.
GetResultsNoDirectory(mode) ==
    /\ mode \in {"Index", "Search"}
    /\ fRun' = [RunIdle EXCEPT !.mode = mode, !.status = "persist_unset",
                               !.existed = indexFile.exists,
                               !.before = Len(indexFile.entries)]
    /\ fOut' = <<>>
    /\ UNCHANGED indexFile

\* get_results in Index mode.
GetResultsIndex(ing, outcome) ==
    LET b == BuildVectorStore(indexFile, ing, outcome)
    IN  /\ indexFile' = b.file
        /\ fOut' = IF b.status = "ok" THEN DocsToData(b.docs) ELSE <<>>
        /\ fRun' = [RunIdle EXCEPT !.mode = "Index", !.status = b.status,
                                   !.ing = ing, !.existed = indexFile.exists,
                                   !.before = Len(indexFile.entries),
                                   !.embedCalls = b.embedCalls]

\* get_results in Search mode.
GetResultsSearch(query, outcome, number_of_results, similarity_threshold) ==
    LET run == [RunIdle EXCEPT !.mode = "Search", !.query = query,
                               !.number_of_results = number_of_results,
                               !.similarity_threshold = similarity_threshold,
                               !.existed = indexFile.exists,
                               !.before = Len(indexFile.entries)]
        index == indexFile.entries
        k == SearchK(number_of_results, Len(index))
        read == [run EXCEPT !.readIndex = TRUE, !.embedCalls = 1,
                            !.ntotal = Len(index)]
    IN  /\ UNCHANGED indexFile
        /\ IF ~indexFile.exists
           THEN fRun' = [run EXCEPT !.status = "index_not_found"] /\ fOut' = <<>>
           ELSE IF BlankQuery(query)
           THEN fRun' = [run EXCEPT !.status = "ok"] /\ fOut' = <<>>
           ELSE IF outcome = "raise"
           THEN fRun' = [read EXCEPT !.status = "embed_raised"] /\ fOut' = <<>>
           ELSE IF k = 0
           THEN fRun' = [read EXCEPT !.status = "ok", !.k = k] /\ fOut' = <<>>
           ELSE IF k < 0
           THEN fRun' = [read EXCEPT !.status = "search_failed", !.k = k]
                /\ fOut' = <<>>
           ELSE \E row \in IndexSearch(index, EmbedVec(query.text), k) :
                    /\ fRun' = [read EXCEPT !.status = "ok", !.k = k,
                                            !.searched = TRUE]
                    /\ fOut' = FilterResults(row, similarity_threshold)

FaissNoDirectory ==
    /\ \E mode \in {"Index", "Search"} : GetResultsNoDirectory(mode)
    /\ UNCHANGED notFaiss

FaissIndex ==
    /\ \E ing \in IngestInputs, outcome \in IndexEmbedOutcomes :
            GetResultsIndex(ing, outcome)
    /\ UNCHANGED notFaiss

FaissSearch ==
    /\ \E query \in Queries, outcome \in QueryEmbedOutcomes,
          n \in NumberOfResults, t \in Thresholds :
            GetResultsSearch(query, outcome, n, t)
    /\ UNCHANGED notFaiss

FaissNext == FaissNoDirectory \/ FaissIndex \/ FaissSearch

\* --------------------------------------------------- result filter alone

\* Rows the engine may hand to the result filter.
EnginePairs == {[id |-> i, dist |-> d] : i \in {-1, 0, 1}, d \in {0, 4, 9}}

FilterIdle ==
    /\ fltIn = [pairs |-> <<>>, threshold |-> 0, done |-> FALSE]
    /\ fltOut = <<>>

FilterInit ==
    /\ fltIn \in {[pairs |-> ps, threshold |-> t, done |-> FALSE] :
                    ps \in SeqsUpTo(EnginePairs, MaxPairs), t \in Thresholds}
    /\ fltOut = <<>>

ApplyFilter ==
    /\ ~fltIn.done
    /\ fltOut' = FilterResults(fltIn.pairs, fltIn.threshold)
    /\ fltIn' = [fltIn EXCEPT !.done = TRUE]
    /\ UNCHANGED notFilter

\* ------------------------------------------------ build_config visibility

\* set_field_display(build_config, field, value)
SetFieldDisplay(cfg, field, value) ==
    IF field \in DOMAIN cfg THEN [cfg EXCEPT ![field] = value] ELSE cfg

\* The "show" flags the FAISS inputs declare (show defaults to True).
FaissDeclared ==
    [mode |-> TRUE, index_name |-> TRUE, persist_directory |-> TRUE,
     embedding |-> TRUE, ingest_data |-> TRUE, search_query |-> FALSE,
     number_of_results |-> FALSE, similarity_threshold |-> FALSE]

\* FaissVectorStoreComponent.update_build_config
FaissUpdateBuildConfigShowAll(cfg, field_value, field_name) ==
    IF field_name = "mode" /\ field_value \in {"Index", "Search"}
    THEN SetFieldDisplay(
            SetFieldDisplay(
                SetFieldDisplay(
                    SetFieldDisplay(cfg, "search_query", TRUE),
                    "number_of_results", TRUE),
                "similarity_threshold", TRUE),
            "ingest_data", field_value = "Index")
    ELSE cfg

FaissUpdateBuildConfig(cfg, field_value, field_name) ==
    IF field_name = "mode"
    THEN IF field_value = "Index"
         THEN SetFieldDisplay(
                SetFieldDisplay(
                    SetFieldDisplay(
                        SetFieldDisplay(cfg, "search_query", FALSE),
                        "number_of_results", FALSE),
                    "similarity_threshold", FALSE),
                "ingest_data", TRUE)
         ELSE IF field_value = "Search"
         THEN SetFieldDisplay(
                SetFieldDisplay(
                    SetFieldDisplay(
                        SetFieldDisplay(cfg, "search_query", TRUE),
                        "number_of_results", TRUE),
                    "similarity_threshold", TRUE),
                "ingest_data", FALSE)
         ELSE cfg
    ELSE cfg

\* The "show" flags the Milvus inputs declare: its own inputs and the
\* inherited ingest_data, search_query and should_cache_vector_store, none
\* of which sets show.
MilvusDeclared ==
    [mode |-> TRUE, db_name |-> TRUE, collection_name |-> TRUE,
     ingest_data |-> TRUE, search_query |-> TRUE,
     should_cache_vector_store |-> TRUE, embedding |-> TRUE,
     number_of_results |-> TRUE]

\* MilvusVectorSTore defines no update_build_config: a change of mode goes
\* to the inherited hook, which sets no "show" flag.
MilvusUpdateBuildConfig(cfg, field_value, field_name) == cfg

\* The field names and values the host may pass to the hook.
FieldNames == {"mode", "index_name", "search_query", "none"}
FieldValues == {"Index", "Search", "index", ""}

NoCall(cfg) ==
    [field_name |-> "none", field_value |-> "", before |-> cfg,
     mode |-> "Index", calls |-> 0]

ConfigInit ==
    /\ cfgF = FaissDeclared
    /\ callF = NoCall(FaissDeclared)
    /\ cfgM = MilvusDeclared
    /\ callM = NoCall(MilvusDeclared)

\* The value of the last mode update that named Index or Search.
LastMode(call, field_value, field_name) ==
    IF field_name = "mode" /\ field_value \in {"Index", "Search"}
    THEN field_value ELSE call.mode

FaissConfigUpdate ==
    /\ \E field_name \in FieldNames, field_value \in FieldValues :
        /\ cfgF' = FaissUpdateBuildConfig(cfgF, field_value, field_name)
        /\ callF' = [field_name |-> field_name, field_value |-> field_value,
                     before |-> cfgF,
                     mode |-> LastMode(callF, field_value, field_name),
                     calls |-> Min(callF.calls + 1, MaxCalls)]
    /\ UNCHANGED <<cfgM, callM>>
    /\ UNCHANGED notConfig

MilvusConfigUpdate ==
    /\ \E field_name \in FieldNames, field_value \in FieldValues :
        /\ cfgM' = MilvusUpdateBuildConfig(cfgM, field_value, field_name)
        /\ callM' = [field_name |-> field_name, field_value |-> field_value,
                     before |-> cfgM,
                     mode |-> LastMode(callM, field_value, field_name),
                     calls |-> Min(callM.calls + 1, MaxCalls)]
    /\ UNCHANGED <<cfgF, callF>>
    /\ UNCHANGED notConfig

ConfigNext == FaissConfigUpdate \/ MilvusConfigUpdate

\* ------------------------------------------------------- MongoDB: data

\* Record payloads (Data.data dicts).
PA == [faiss_id |-> 0, text |-> 0]
PB == [faiss_id |-> 0, text |-> 1, extra |-> 5]
PC == [faiss_id |-> 1, text |-> 0]
PD == [text |-> 0]

IngestPayloads == {PB, PC}
BulkPayloads == {PA, PC, PD}

MongoUrls == {"u1", "u2"}
Namespaces == {"c1", "c2"}
Targets == MongoUrls \X Namespaces

\* A db_name / collection_name that the driver rejects (InvalidName).
BadNamespace == "<invalid name>"

\* CacheMiss, and self.client = None.
NoClient == <<"", 0>>

\* self.collection = None.
NoHandle == [client |-> NoClient, target |-> <<"", "">>]

\* client[db_name][collection_name]
Handle(client, ns) == [client |-> client, target |-> <<client[1], ns>>]

\* ------------------------------------------------- MongoDB: connection

\* maybe_create_db: the status, the cache and the instance afterwards, and
\* whether a client was constructed. connect is what MongoClient(...) does
\* on a miss; client[db_name][collection_name] raises for a bad name, on a
\* hit as on a miss.
MaybeCreateDbKeepingFirstHandle(url, ns, connect) ==
    LET same == [status |-> "ok", cache |-> mCache, inst |-> mInst,
                 built |-> FALSE, hit |-> FALSE]
    IN  IF url = "" THEN same
        ELSE IF mCache[url] # NoClient
        THEN IF ns = BadNamespace
             THEN [same EXCEPT !.status = "invalid_name", !.hit = TRUE]
             ELSE IF mInst.collection # NoHandle
             THEN [same EXCEPT !.hit = TRUE]
             ELSE [same EXCEPT !.inst.collection = Handle(mCache[url], ns),
                               !.hit = TRUE]
        ELSE IF connect = "fail"
        THEN [same EXCEPT !.status = "connect_failed"]
        ELSE LET client == <<url, mBuilt[url] + 1>>
             IN  IF ns = BadNamespace
                 THEN [same EXCEPT !.status = "connect_failed",
                                   !.inst.client = client, !.built = TRUE]
                 ELSE [status |-> "ok",
                       cache |-> [mCache EXCEPT ![url] = client],
                       inst |-> [client |-> client,
                                 collection |-> Handle(client, ns)],
                       built |-> TRUE, hit |-> FALSE]

MaybeCreateDb(url, ns, connect) ==
    LET same == [status |-> "ok", cache |-> mCache, inst |-> mInst,
                 built |-> FALSE, hit |-> FALSE]
    IN  IF url = "" THEN same
        ELSE IF mCache[url] # NoClient
        THEN IF ns = BadNamespace
             THEN [same EXCEPT !.status = "invalid_name", !.hit = TRUE]
             ELSE [same EXCEPT !.inst.collection = Handle(mCache[url], ns),
                               !.hit = TRUE]
        ELSE IF connect = "fail"
        THEN [same EXCEPT !.status = "connect_failed"]
        ELSE LET client == <<url, mBuilt[url] + 1>>
             IN  IF ns = BadNamespace
                 THEN [same EXCEPT !.status = "connect_failed",
                                   !.inst.client = client, !.built = TRUE]
                 ELSE [status |-> "ok",
                       cache |-> [mCache EXCEPT ![url] = client],
                       inst |-> [client |-> client,
                                 collection |-> Handle(client, ns)],
                       built |-> TRUE, hit |-> FALSE]

\* The outcomes a connection attempt can have: only a cache miss connects.
ConnectOutcomes(url) ==
    IF url # "" /\ mCache[url] = NoClient THEN {"ok", "fail"} ELSE {"ok"}

Connected(c, url) ==
    /\ mCache' = c.cache
    /\ mInst' = c.inst
    /\ mBuilt' = IF c.built THEN [mBuilt EXCEPT ![url] = @ + 1] ELSE mBuilt

\* ------------------------------------------------- MongoDB: operations

\* for i in range(0, len(data), batch_size): data[i : i + batch_size]
RECURSIVE BatchesFrom(_, _, _)
BatchesFrom(data, batch_size, i) ==
    IF i >= Len(data) THEN <<>>
    ELSE <<SubSeq(data, i + 1, Min(i + batch_size, Len(data)))>>
            \o BatchesFrom(data, batch_size, i + batch_size)

BatchesShort(data, batch_size) ==
    IF batch_size <= 0 THEN <<>>
    ELSE BatchesFrom(SubSeq(data, 1, Len(data) - 1), batch_size, 0)

Batches(data, batch_size) ==
    IF batch_size <= 0 THEN <<>> ELSE BatchesFrom(data, batch_size, 0)

\* {"$set": doc}: the fields of doc are set, the other fields are kept.
SetFieldsReplacing(doc, upd) == upd

SetFields(doc, upd) ==
    [k \in (DOMAIN doc) \cup (DOMAIN upd) |->
        IF k \in DOMAIN upd THEN upd[k] ELSE doc[k]]

\* UpdateOne({"faiss_id": id}, {"$set": doc}, upsert=True): the first
\* document with that faiss_id is updated, or a new one is inserted.
Matching(coll, id) ==
    {i \in 1..Len(coll) : "faiss_id" \in DOMAIN coll[i] /\ coll[i]["faiss_id"] = id}

FirstOf(S) == CHOOSE i \in S : \A j \in S : i <= j

UpdateOne(coll, doc) ==
    LET m == Matching(coll, doc["faiss_id"])
    IN  IF m = {}
        THEN Append(coll, SetFields([faiss_id |-> doc["faiss_id"]], doc))
        ELSE [coll EXCEPT ![FirstOf(m)] = SetFields(@, doc)]

\* db_store.bulk_write(operations): the operations applied in order.
RECURSIVE BulkWrite(_, _)
BulkWrite(coll, ops) ==
    IF ops = <<>> THEN coll
    ELSE BulkWrite(UpdateOne(coll, Head(ops)), Tail(ops))

\* collection.delete_many({}): no document is left.
DeleteManyKeeping(coll) == coll

DeleteMany(coll) == <<>>

MongoIdle ==
    [op |-> "none", status |-> "none", url |-> "", ns |-> "",
     target |-> <<"", "">>, data |-> <<>>,
     batch_size |-> 0, inserts |-> <<>>, built |-> FALSE, hit |-> FALSE,
     matched |-> 0, upserted |-> 0, deleted |-> 0, returned |-> <<>>]

MongoInit ==
    /\ mCache = [u \in MongoUrls |-> NoClient]
    /\ mBuilt = [u \in MongoUrls |-> 0]
    /\ mInst = [client |-> NoClient, collection |-> NoHandle]
    /\ mStore = [t \in Targets |-> <<>>]
    /\ mRun = MongoIdle

\* MongoDBStore.__init__: a new component instance; the cache is shared.
NewInstance ==
    /\ mInst' = [client |-> NoClient, collection |-> NoHandle]
    /\ mRun' = [MongoIdle EXCEPT !.op = "init", !.status = "ok"]
    /\ UNCHANGED <<mCache, mBuilt, mStore>>

\* run_sql_query in Index mode: __ingest(index=True). ingest is the list
\* of payloads, or "none" when ingest_data is unset.
RunSqlQueryIndex(url, ns, connect, given, data, batch_size) ==
    LET c == MaybeCreateDb(url, ns, connect)
        run == [MongoIdle EXCEPT !.op = "ingest", !.data = data,
                                 !.batch_size = batch_size,
                                 !.url = url, !.ns = ns,
                                 !.built = c.built, !.hit = c.hit,
                                 !.target = c.inst.collection.target]
        t == c.inst.collection.target
        batches == Batches(data, batch_size)
        deleted == [mStore EXCEPT ![t] = DeleteMany(@)]
        gone == Len(mStore[t]) - Len(deleted[t])
    IN  /\ Connected(c, url)
        /\ IF c.status # "ok"
           THEN mRun' = [run EXCEPT !.status = c.status] /\ UNCHANGED mStore
           ELSE IF c.inst.collection = NoHandle
           THEN mRun' = [run EXCEPT !.status = "no_collection"]
                /\ UNCHANGED mStore
           ELSE IF ~given
           THEN mRun' = [run EXCEPT !.status = "ingest_unset", !.deleted = gone]
                /\ mStore' = deleted
           ELSE IF batch_size = 0
           THEN mRun' = [run EXCEPT !.status = "zero_batch_size",
                                    !.deleted = gone]
                /\ mStore' = deleted
           ELSE /\ mRun' = [run EXCEPT !.status = "ok", !.inserts = batches,
                                       !.deleted = gone, !.returned = <<>>]
                /\ mStore' = [deleted EXCEPT ![t] = @ \o Flatten(batches)]

\* update_with_bulk(data)
UpdateWithBulk(url, ns, connect, data) ==
    LET c == MaybeCreateDb(url, ns, connect)
        run == [MongoIdle EXCEPT !.op = "bulk", !.data = data,
                                 !.url = url, !.ns = ns,
                                 !.built = c.built, !.hit = c.hit,
                                 !.target = c.inst.collection.target]
        t == c.inst.collection.target
        after == BulkWrite(mStore[t], data)
    IN  /\ Connected(c, url)
        /\ IF c.status # "ok"
           THEN mRun' = [run EXCEPT !.status = c.status] /\ UNCHANGED mStore
           ELSE IF \E i \in 1..Len(data) : "faiss_id" \notin DOMAIN data[i]
           THEN mRun' = [run EXCEPT !.status = "key_error"]
                /\ UNCHANGED mStore
           ELSE IF data = <<>>
           THEN mRun' = [run EXCEPT !.status = "ok"] /\ UNCHANGED mStore
           ELSE IF c.inst.collection = NoHandle
           THEN mRun' = [run EXCEPT !.status = "no_collection"]
                /\ UNCHANGED mStore
           ELSE /\ mRun' = [run EXCEPT !.status = "ok",
                                !.upserted = Len(after) - Len(mStore[t]),
                                !.matched = Len(data) - (Len(after) - Len(mStore[t]))]
                /\ mStore' = [mStore EXCEPT ![t] = after]

\* delete_all()
DeleteAll(url, ns, connect) ==
    LET c == MaybeCreateDb(url, ns, connect)
        run == [MongoIdle EXCEPT !.op = "delete_all", !.url = url, !.ns = ns,
                                 !.built = c.built,
                                 !.hit = c.hit,
                                 !.target = c.inst.collection.target]
        t == c.inst.collection.target
    IN  /\ Connected(c, url)
        /\ IF c.status # "ok"
           THEN mRun' = [run EXCEPT !.status = c.status] /\ UNCHANGED mStore
           ELSE IF c.inst.collection = NoHandle
           THEN mRun' = [run EXCEPT !.status = "no_collection"]
                /\ UNCHANGED mStore
           ELSE /\ mRun' = [run EXCEPT !.status = "ok",
                                       !.deleted = Len(mStore[t])]
                /\ mStore' = [mStore EXCEPT ![t] = DeleteMany(@)]

\* query_check_db(limit): the first limit documents of the collection.
QueryCheckDb(url, ns, connect, limit) ==
    LET c == MaybeCreateDb(url, ns, connect)
        run == [MongoIdle EXCEPT !.op = "scan", !.url = url, !.ns = ns,
                                 !.built = c.built,
                                 !.hit = c.hit,
                                 !.target = c.inst.collection.target]
        t == c.inst.collection.target
    IN  /\ Connected(c, url)
        /\ UNCHANGED mStore
        /\ mRun' = IF c.status # "ok" THEN [run EXCEPT !.status = c.status]
                   ELSE IF c.inst.collection = NoHandle
                   THEN [run EXCEPT !.status = "no_collection"]
                   ELSE [run EXCEPT !.status = "ok",
                            !.returned =
                                SubSeq(mStore[t], 1, Min(limit, Len(mStore[t])))]

\* run_sql_query in Search mode: the documents whose faiss_id is one of
\* the ids of the query records.
RunSqlQuerySearch(url, ns, connect, ids) ==
    LET c == MaybeCreateDb(url, ns, connect)
        run == [MongoIdle EXCEPT !.op = "search", !.url = url, !.ns = ns,
                                 !.built = c.built,
                                 !.hit = c.hit,
                                 !.target = c.inst.collection.target]
        t == c.inst.collection.target
    IN  /\ Connected(c, url)
        /\ UNCHANGED mStore
        /\ mRun' = IF c.status # "ok" THEN [run EXCEPT !.status = c.status]
                   ELSE IF c.inst.collection = NoHandle
                   THEN [run EXCEPT !.status = "no_collection"]
                   ELSE [run EXCEPT !.status = "ok",
                            !.returned =
                                SelectSeq(mStore[t], LAMBDA doc :
                                    /\ "faiss_id" \in DOMAIN doc
                                    /\ doc["faiss_id"] \in ids)]

\* The inputs of the data specification: one database_url, one collection.
DataUrls == {"u1"}
DataNamespaces == {"c1"}
BatchSizes == {0, 1, 2}

MongoNewInstance ==
    /\ NewInstance
    /\ UNCHANGED notMongo

MongoIngest ==
    /\ \E url \in DataUrls, ns \in DataNamespaces :
       \E connect \in ConnectOutcomes(url) :
          \/ \E data \in SeqsUpTo(IngestPayloads, MaxRecs),
                batch_size \in BatchSizes :
                RunSqlQueryIndex(url, ns, connect, TRUE, data, batch_size)
          \/ RunSqlQueryIndex(url, ns, connect, FALSE, <<>>, 1)
    /\ UNCHANGED notMongo

MongoBulkUpdate ==
    /\ \E url \in DataUrls, ns \in DataNamespaces :
       \E connect \in ConnectOutcomes(url) :
       \E data \in SeqsUpTo(BulkPayloads, MaxBulk) :
            UpdateWithBulk(url, ns, connect, data)
    /\ UNCHANGED notMongo

MongoDeleteAll ==
    /\ \E url \in DataUrls, ns \in DataNamespaces :
       \E connect \in ConnectOutcomes(url) :
            DeleteAll(url, ns, connect)
    /\ UNCHANGED notMongo

MongoNext ==
    MongoNewInstance \/ MongoIngest \/ MongoBulkUpdate \/ MongoDeleteAll

\* ------------------------------------------- MongoDB: connection sharing

\* The inputs of the connection specification: every database_url, every
\* collection and a bad name, no documents.
CacheNamespaces == Namespaces \cup {BadNamespace}
\* A use may construct a client only while fewer than MaxClients were.
CacheUse(url) == mCache[url] # NoClient \/ mBuilt[url] < MaxClients

CacheNewInstance ==
    /\ NewInstance
    /\ UNCHANGED notMongo

CacheIngest ==
    /\ \E url \in MongoUrls, ns \in CacheNamespaces :
       \E connect \in ConnectOutcomes(url) :
            CacheUse(url) /\ RunSqlQueryIndex(url, ns, connect, TRUE, <<>>, 1)
    /\ UNCHANGED notMongo

CacheBulkUpdate ==
    /\ \E url \in MongoUrls, ns \in CacheNamespaces :
       \E connect \in ConnectOutcomes(url) :
            CacheUse(url) /\ UpdateWithBulk(url, ns, connect, <<>>)
    /\ UNCHANGED notMongo

CacheDeleteAll ==
    /\ \E url \in MongoUrls, ns \in CacheNamespaces :
       \E connect \in ConnectOutcomes(url) :
            CacheUse(url) /\ DeleteAll(url, ns, connect)
    /\ UNCHANGED notMongo

CacheScan ==
    /\ \E url \in MongoUrls, ns \in CacheNamespaces :
       \E connect \in ConnectOutcomes(url) :
            CacheUse(url) /\ QueryCheckDb(url, ns, connect, 100)
    /\ UNCHANGED notMongo

CacheSearch ==
    /\ \E url \in MongoUrls, ns \in CacheNamespaces :
       \E connect \in ConnectOutcomes(url) :
            CacheUse(url) /\ RunSqlQuerySearch(url, ns, connect, {0})
    /\ UNCHANGED notMongo

CacheNext ==
    \/ CacheNewInstance \/ CacheIngest \/ CacheBulkUpdate
    \/ CacheDeleteAll \/ CacheScan \/ CacheSearch

\* ------------------------------------- MongoDB: concurrent first use

\* The invocations of maybe_create_db that run at the same time, each on
\* its own component instance.
Invocations == 1..MaxInvocations

\* Where an invocation stands: before the cache lookup, before the
\* connection, before the cache store, or finished.
RaceStart(url, ns) ==
    [pc |-> "get", url |-> url, ns |-> ns, status |-> "none",
     client |-> NoClient, collection |-> NoHandle]

RaceInit ==
    /\ rProc \in [Invocations -> {RaceStart(url, ns) :
                                    url \in MongoUrls, ns \in Namespaces}]
    /\ rShared = [cache |-> [u \in MongoUrls |-> NoClient],
                  built |-> [u \in MongoUrls |-> 0],
                  last |-> [u \in MongoUrls |-> 0]]

\* The concurrent variables while another specification is checked.
RaceIdleInit ==
    /\ rProc = [p \in Invocations |-> RaceStart("u1", "c1")]
    /\ rShared = [cache |-> [u \in MongoUrls |-> NoClient],
                  built |-> [u \in MongoUrls |-> 0],
                  last |-> [u \in MongoUrls |-> 0]]

\* cached_db = self._shared_component_cache.get(self.database_url); on a
\* hit the handle is taken from the cached client and the call returns.
RaceCacheGet ==
    /\ \E p \in Invocations :
        LET me == rProc[p]
            cached_db == rShared.cache[me.url]
        IN  /\ me.pc = "get"
            /\ rProc' = [rProc EXCEPT ![p] =
                    IF cached_db # NoClient
                    THEN [me EXCEPT !.pc = "done", !.status = "hit",
                                    !.collection = Handle(cached_db, me.ns)]
                    ELSE [me EXCEPT !.pc = "connect"]]
    /\ UNCHANGED rShared
    /\ UNCHANGED notRace

\* self.collection = self.create_client_collection(): a new client, or a
\* failure that ends the call.
RaceConnect ==
    /\ \E p \in Invocations, connect \in {"ok", "fail"} :
        LET me == rProc[p]
            client == <<me.url, rShared.built[me.url] + 1>>
        IN  /\ me.pc = "connect"
            /\ IF connect = "fail"
               THEN /\ rProc' = [rProc EXCEPT ![p] =
                            [me EXCEPT !.pc = "done",
                                       !.status = "connect_failed"]]
                    /\ UNCHANGED rShared
               ELSE /\ rProc' = [rProc EXCEPT ![p] =
                            [me EXCEPT !.pc = "set", !.client = client,
                                       !.collection = Handle(client, me.ns)]]
                    /\ rShared' = [rShared EXCEPT !.built[me.url] = @ + 1]
    /\ UNCHANGED notRace

\* self._shared_component_cache.set(self.database_url, self.client)
CacheSetIfAbsent(cache, url, client) ==
    IF cache[url] = NoClient THEN [cache EXCEPT ![url] = client] ELSE cache

CacheSet(cache, url, client) == [cache EXCEPT ![url] = client]

RaceCacheSet ==
    /\ \E p \in Invocations :
        LET me == rProc[p]
        IN  /\ me.pc = "set"
            /\ rShared' = [rShared EXCEPT
                    !.cache = CacheSet(@, me.url, me.client),
                    !.last[me.url] = p]
            /\ rProc' = [rProc EXCEPT ![p] =
                    [me EXCEPT !.pc = "done", !.status = "stored"]]
    /\ UNCHANGED notRace

RaceNext == RaceCacheGet \/ RaceConnect \/ RaceCacheSet

\* ----------------------------------------------------------------- Milvus

\* Database and collection names. The service always has "default".
DbNames == {"default", "d1"}
CollectionNames == {"c1", "c2"}

\* A collection that does not exist holds Absent rows.
Absent == 0 - 1

\* The dimension of the vectors of a collection the component creates.
DIMENSION == 768

\* A call the component makes to the service.
Call(name, arg) == [call |-> name, arg |-> arg, dimension |-> 0]

\* client.create_collection(collection_name=..., dimension=DIMENSION)
CreateCollection(collection_name) ==
    [call |-> "create_collection", arg |-> collection_name,
     dimension |-> DIMENSION]

\* db.list_database() ... db.using_database(): the database is created
\* only when it is not listed, and selected in both cases.
DatabaseCallsAlwaysCreating(db_name, existing) ==
    <<Call("create_database", db_name), Call("using_database", db_name)>>

DatabaseCalls(db_name, existing) ==
    IF db_name \in existing
    THEN <<Call("using_database", db_name)>>
    ELSE <<Call("create_database", db_name), Call("using_database", db_name)>>

\* The orders in which utility.list_collections() may list a set of names.
Orders(S) ==
    {o \in [1..Cardinality(S) -> S] : \A i, j \in DOMAIN o : o[i] = o[j] => i = j}

\* The service after a sequence of calls made in one session.
RECURSIVE Served(_, _)
Served(sv, calls) ==
    IF calls = <<>> THEN sv
    ELSE LET c == Head(calls)
             next ==
                IF c.call = "create_database"
                THEN [sv EXCEPT !.dbs = @ \cup {c.arg}]
                ELSE IF c.call = "using_database"
                THEN [sv EXCEPT !.using = c.arg]
                ELSE IF c.call = "drop"
                THEN [sv EXCEPT !.coll[<<sv.using, c.arg>>] = Absent]
                ELSE IF c.call = "create_collection"
                THEN [sv EXCEPT !.coll[<<sv.using, c.arg>>] =
                                    IF @ = Absent THEN 0 ELSE @]
                ELSE sv
         IN  Served(next, Tail(calls))

\* initial_client_vector_store: the calls it makes, given the order in
\* which the collections of the selected database are listed. All calls go
\* to one service session.
InitialClientVectorStoreDroppingOwn(sv, db_name, collection_name, order) ==
    <<Call("connect", ""), Call("list_database", "")>>
        \o DatabaseCalls(db_name, sv.dbs)
        \o <<Call("list_collections", "")>>
        \o SelectSeq([i \in 1..Len(order) |-> Call("drop", order[i])],
                     LAMBDA c : c.arg = collection_name)
        \o <<CreateCollection(collection_name)>>

InitialClientVectorStore(sv, db_name, collection_name, order) ==
    <<Call("connect", ""), Call("list_database", "")>>
        \o DatabaseCalls(db_name, sv.dbs)
        \o <<Call("list_collections", "")>>
        \o [i \in 1..Len(order) |-> Call("drop", order[i])]
        \o <<CreateCollection(collection_name)>>

\* The collections of database db_name.
Listed(sv, db_name) ==
    {c \in CollectionNames : sv.coll[<<db_name, c>>] # Absent}

NoStore == [built |-> FALSE, collection |-> ""]

\* check_cached_vector_store + build_vector_store: the cached store is
\* returned when caching is on and one exists; otherwise the service is
\* provisioned and a store bound to collection_name is built and cached.
\* Gives the provisionings made (none or one), the service and the store.
BuildMilvusStore(sv, cached, should_cache, db_name, collection_name, order) ==
    IF should_cache /\ cached.built
    THEN [provs |-> <<>>, sv |-> sv, store |-> cached]
    ELSE LET calls == InitialClientVectorStore(sv, db_name, collection_name, order)
             served == Served(sv, calls)
         IN  [provs |-> <<[db |-> db_name, collection |-> collection_name,
                           existing |-> sv.dbs,
                           listed |-> Listed(sv, db_name), calls |-> calls,
                           after |-> [c \in CollectionNames |->
                                        served.coll[<<db_name, c>>]]]>>,
              sv |-> served,
              store |-> [built |-> TRUE, collection |-> collection_name]]

\* vector_store.add_documents(documents): n rows more in the store's
\* collection (created on first use when missing).
AddDocuments(sv, store, n) ==
    LET at == <<sv.using, store.collection>>
    IN  [sv EXCEPT !.coll[at] = (IF @ = Absent THEN 0 ELSE @) + n]

MilvusIdle ==
    [op |-> "none", status |-> "none", db_name |-> "", collection_name |-> "",
     provs |-> <<>>, out |-> 0]

\* The service as the component may find it: "default" and any other
\* databases, each with any collections, all empty.
MilvusInit ==
    /\ vServer \in
        {[dbs |-> dbs, using |-> "default", coll |-> coll] :
            dbs \in {D \in SUBSET DbNames : "default" \in D},
            coll \in [DbNames \X CollectionNames -> {Absent, 0}]}
    /\ \A d \in DbNames, c \in CollectionNames :
            vServer.coll[<<d, c>>] # Absent => d \in vServer.dbs
    /\ vCached = NoStore
    /\ vRun = MilvusIdle

\* A new component instance: no cached vector store.
MilvusNewInstance ==
    /\ vCached' = NoStore
    /\ vRun' = [MilvusIdle EXCEPT !.op = "init", !.status = "ok"]
    /\ UNCHANGED vServer
    /\ UNCHANGED notMilvus

\* The orders the collections of db_name are listed in, if a provisioning
\* is made at all.
ListOrders(sv, cached, should_cache, db_name) ==
    IF should_cache /\ cached.built THEN {<<>>} ELSE Orders(Listed(sv, db_name))

\* main() in Index mode: build, ingest n documents, scan the collection.
MainIndex(should_cache, db_name, collection_name, n, order) ==
    LET b == BuildMilvusStore(vServer, vCached, should_cache, db_name,
                              collection_name, order)
        sv == IF n > 0 THEN AddDocuments(b.sv, b.store, n) ELSE b.sv
        rows == sv.coll[<<sv.using, collection_name>>]
        run == [MilvusIdle EXCEPT !.op = "index", !.db_name = db_name,
                                  !.collection_name = collection_name,
                                  !.provs = b.provs]
    IN  /\ sv.coll[<<sv.using, b.store.collection>>] <= MaxRows
        /\ vServer' = sv
        /\ vCached' = b.store
        /\ vRun' = IF rows = Absent
                   THEN [run EXCEPT !.status = "collection_not_found"]
                   ELSE [run EXCEPT !.status = "ok", !.out = rows]

\* main() in Search mode: build, then search_documents, which builds again
\* and runs a similarity search for a query that is not blank.
MainSearch(should_cache, db_name, collection_name, blank, k, order1, order2) ==
    LET b1 == BuildMilvusStore(vServer, vCached, should_cache, db_name,
                               collection_name, order1)
        b2 == BuildMilvusStore(b1.sv, b1.store, should_cache, db_name,
                               collection_name, order2)
        rows == b2.sv.coll[<<b2.sv.using, b2.store.collection>>]
        run == [MilvusIdle EXCEPT !.op = "search", !.db_name = db_name,
                                  !.collection_name = collection_name,
                                  !.provs = b1.provs \o b2.provs]
    IN  /\ order2 \in ListOrders(b1.sv, b1.store, should_cache, db_name)
        /\ vServer' = b2.sv
        /\ vCached' = b2.store
        /\ vRun' = IF blank THEN [run EXCEPT !.status = "ok"]
                   ELSE IF rows = Absent
                   THEN [run EXCEPT !.status = "collection_not_found"]
                   ELSE [run EXCEPT !.status = "ok", !.out = Min(k, rows)]

MilvusIndex ==
    /\ \E should_cache \in BOOLEAN, db_name \in DbNames,
          collection_name \in CollectionNames, n \in {0, 1} :
       \E order \in ListOrders(vServer, vCached, should_cache, db_name) :
            MainIndex(should_cache, db_name, collection_name, n, order)
    /\ UNCHANGED notMilvus

MilvusSearch ==
    /\ \E should_cache \in BOOLEAN, db_name \in DbNames,
          collection_name \in CollectionNames, blank \in BOOLEAN :
       \E order1 \in ListOrders(vServer, vCached, should_cache, db_name),
          order2 \in UNION {Orders(S) : S \in SUBSET CollectionNames} :
            MainSearch(should_cache, db_name, collection_name, blank, 1,
                       order1, order2)
    /\ UNCHANGED notMilvus

MilvusNext == MilvusNewInstance \/ MilvusIndex \/ MilvusSearch

\* The Milvus variables while another component is checked.
MilvusIdleInit ==
    /\ vServer = [dbs |-> {"default"}, using |-> "default",
                  coll |-> [t \in DbNames \X CollectionNames |-> Absent]]
    /\ vCached = NoStore
    /\ vRun = MilvusIdle

\* ------------------------------------------------------ process launchers

\* Text is a sequence of characters. A run of characters that holds no
\* whitespace, no "/" and no quote may be written as one element.
Whitespace == {" ", "\n"}

\* str.strip()
RECURSIVE LStripText(_)
LStripText(t) ==
    IF t # <<>> /\ Head(t) \in Whitespace THEN LStripText(Tail(t)) ELSE t

RECURSIVE RStripText(_)
RStripText(t) ==
    IF t # <<>> /\ t[Len(t)] \in Whitespace
    THEN RStripText(SubSeq(t, 1, Len(t) - 1)) ELSE t

StripText(t) == LStripText(RStripText(t))

\* t.split(sep) for the separators in seps, empty pieces kept.
RECURSIVE SplitOn(_, _)
SplitOn(t, seps) ==
    IF t = <<>> THEN << <<>> >>
    ELSE LET rest == SplitOn(Tail(t), seps)
         IN  IF Head(t) \in seps
             THEN << <<>> >> \o rest
             ELSE << <<Head(t)>> \o Head(rest) >> \o Tail(rest)

\* str.split(): the words between runs of whitespace.
SplitText(t) == SelectSeq(SplitOn(t, Whitespace), LAMBDA w : w # <<>>)

\* " ".join(words)
RECURSIVE JoinText(_)
JoinText(words) ==
    IF words = <<>> THEN <<>>
    ELSE IF Len(words) = 1 THEN Head(words)
    ELSE Head(words) \o <<" ">> \o JoinText(Tail(words))

\* shlex.quote(s): '' for the empty string, s itself when every character
\* is safe, otherwise s in single quotes with each ' written as '"'"'.
UnsafeChars == Whitespace \cup {"'", "\""}

ShlexQuote(s) ==
    IF s = <<>> THEN <<"'", "'">>
    ELSE IF \A i \in 1..Len(s) : s[i] \notin UnsafeChars THEN s
    ELSE <<"'">>
         \o Flatten([i \in 1..Len(s) |->
                IF s[i] = "'" THEN <<"'", "\"", "'", "\"", "'">> ELSE <<s[i]>>])
         \o <<"'">>

\* Path(text): absolute when it starts with "/"; its parts are the
\* non-empty pieces between "/" other than ".".
PathOf(t) ==
    [abs |-> t # <<>> /\ Head(t) = "/",
     parts |-> SelectSeq(SplitOn(t, {"/"}), LAMBDA c : c # <<>> /\ c # <<".">>)]

\* Path.resolve(): a relative path is taken from the working directory.
Resolve(path, cwd) == IF path.abs THEN path.parts ELSE cwd \o path.parts

\* Path.parent: the root is its own parent.
Parent(dir) == IF dir = <<>> THEN <<>> ELSE SubSeq(dir, 1, Len(dir) - 1)

\* str(path) of an absolute path.
PathText(dir) == Flatten([i \in 1..Len(dir) |-> <<"/">> \o dir[i]])

\* The directories that may hold a .venv: /, /p and /p/q.
DirRoot == <<>>
DirP == << <<"p">> >>
DirPQ == << <<"p">>, <<"q">> >>
VenvDirs == {DirRoot, DirP, DirPQ}

\* What a directory holds under the name .venv: nothing, a .venv without
\* bin/python, or a .venv with bin/python.
VenvKinds == {"none", "bare", "python"}

VenvAt(fs, dir) == IF dir \in VenvDirs THEN fs.venv[dir] ELSE "none"

NoVenv == [found |-> FALSE, dir |-> <<>>]

\* find_venv_path: the first of current and its parents whose .venv holds
\* bin/python.
RECURSIVE FindVenvPathAnyVenv(_, _)
FindVenvPathAnyVenv(fs, current) ==
    IF VenvAt(fs, current) # "none" THEN [found |-> TRUE, dir |-> current]
    ELSE IF current = <<>> THEN NoVenv
    ELSE FindVenvPathAnyVenv(fs, Parent(current))

RECURSIVE FindVenvPath(_, _)
FindVenvPath(fs, current) ==
    IF VenvAt(fs, current) = "python" THEN [found |-> TRUE, dir |-> current]
    ELSE IF current = <<>> THEN NoVenv
    ELSE FindVenvPath(fs, Parent(current))

\* The directory discovery starts from: the parent of the resolved path.
StartDirectory(fs, file_path) == Parent(Resolve(PathOf(file_path), fs.cwd))

\* find_venv_path_from_file
FindVenvPathFromFile(fs, file_path) ==
    FindVenvPath(fs, StartDirectory(fs, file_path))

\* str(venv_path / "bin" / "python")
VenvPython(venv) == PathText(venv.dir) \o <<"/", ".venv", "/", "bin", "/", "python">>

\* module_directory values: empty, blank, relative and absolute script
\* paths, one of them in a directory whose name holds a space.
ModuleDirectories ==
    { <<>>, <<" ">>, <<"s">>, <<"/", "p", "/", "q", "/", "s">>,
      <<"/", "p", "/", "q", " ", "r", "/", "s">> }

\* arguments / name_search values: absent, one text, or a list of texts.
NoValue == [kind |-> "none", items |-> <<>>]
TextValue(t) == [kind |-> "str", items |-> <<t>>]
ListValue(ts) == [kind |-> "list", items |-> ts]

FieldValuesGiven ==
    { NoValue, TextValue(<<>>), TextValue(<<"a">>), TextValue(<<"a", " ", "b">>),
      ListValue(<< <<"a", " ", "b">>, <<"c">> >>) }

\* The argument list each component builds, or the error it raises.
Arguments(component, given) ==
    IF component = "subprocess"
    THEN IF given.kind = "list" THEN [ok |-> TRUE, args |-> given.items]
         ELSE IF given.kind = "str"
         THEN [ok |-> TRUE, args |-> SplitText(given.items[1])]
         ELSE [ok |-> FALSE, args |-> <<>>]
    ELSE IF component = "score"
    THEN IF given.kind = "str"
         THEN [ok |-> TRUE, args |-> <<<<"--query">>, ShlexQuote(given.items[1])>>]
         ELSE [ok |-> FALSE, args |-> <<>>]
    ELSE IF given.kind = "list"
         THEN [ok |-> TRUE, args |-> << <<"--query">> >> \o given.items]
         ELSE IF given.kind = "str"
         THEN [ok |-> TRUE, args |-> <<<<"--query">>, given.items[1]>>]
         ELSE [ok |-> FALSE, args |-> <<>>]

\* The command handed to subprocess.run.
CommandList(component, venv, module_directory, args) ==
    LET command_list == <<VenvPython(venv), module_directory>> \o args
    IN  IF component = "route" THEN SplitText(JoinText(command_list))
        ELSE command_list

\* What the child process does: exits with a code after writing stdout and
\* stderr, or cannot be started.
Child(exit, stdout, stderr) ==
    [started |-> TRUE, exit |-> exit, stdout |-> stdout, stderr |-> stderr]
NotStarted == [started |-> FALSE, exit |-> 0, stdout |-> <<>>, stderr |-> <<>>]

ChildOutcomes ==
    { Child(0, <<"hello">>, <<>>), Child(0, <<" ", "hello", "\n">>, <<"w">>),
      Child(1, <<"h">>, <<"boom">>), Child(1, <<>>, <<"boom", "\n">>),
      NotStarted }

NoOutput == [has |-> FALSE, output |-> <<>>]

CommandFailedPrefix == <<"Command failed with error:", " ">>

\* f"Command failed with error: {e.stderr.strip()}"
CommandFailedMessageUntrimmed(stderr) == CommandFailedPrefix \o stderr

CommandFailedMessage(stderr) == CommandFailedPrefix \o StripText(stderr)

LauncherIdle ==
    [component |-> "none", status |-> "none", module_directory |-> <<>>,
     given |-> NoValue, venv |-> NoVenv, spawned |-> FALSE, command |-> <<>>,
     child |-> NotStarted, out |-> NoOutput, message |-> <<>>]

\* The working directory and the .venv of every directory, as found: here
\* only /p may hold one.
LauncherInit ==
    /\ lFs \in {[cwd |-> cwd,
                 venv |-> [d \in VenvDirs |-> IF d = DirP THEN kind ELSE "none"]] :
                    cwd \in {DirRoot, DirP}, kind \in VenvKinds}
    /\ lRun = LauncherIdle

\* The launcher variables while another component is checked.
LauncherIdleInit ==
    /\ lFs = [cwd |-> DirRoot, venv |-> [d \in VenvDirs |-> "none"]]
    /\ lRun = LauncherIdle

\* fetch_output / get_route: discovery, interpreter check, arguments,
\* module_directory check, command, child process.
\* still: whether bin/python is still there at the second look.
Launch(component, module_directory, given, still, child) ==
    LET venv == FindVenvPathFromFile(lFs, module_directory)
        arguments == Arguments(component, given)
        command == CommandList(component, venv, module_directory, arguments.args)
        run == [LauncherIdle EXCEPT !.component = component,
                                    !.module_directory = module_directory,
                                    !.given = given, !.venv = venv]
    IN  lRun' =
            IF ~venv.found THEN [run EXCEPT !.status = "no_venv"]
            ELSE IF ~still THEN [run EXCEPT !.status = "no_interpreter"]
            ELSE IF ~arguments.ok THEN [run EXCEPT !.status = "bad_arguments"]
            ELSE IF StripText(module_directory) = <<>>
            THEN [run EXCEPT !.status = "empty_module_directory"]
            ELSE IF ~child.started
            THEN [run EXCEPT !.status = "os_error", !.spawned = TRUE,
                             !.command = command, !.child = child]
            ELSE IF child.exit # 0
            THEN [run EXCEPT !.status = "command_failed", !.spawned = TRUE,
                             !.command = command, !.child = child,
                             !.message = CommandFailedMessage(child.stderr)]
            ELSE [run EXCEPT !.status = "ok", !.spawned = TRUE,
                             !.command = command, !.child = child,
                             !.out = [has |-> TRUE,
                                      output |-> StripText(child.stdout)]]

\* The inputs that matter to a run: the second look happens only when a
\* .venv was found, the child only when the command is run.
StillOutcomes(module_directory) ==
    IF FindVenvPathFromFile(lFs, module_directory).found THEN BOOLEAN ELSE {TRUE}

ChildOutcomesOf(component, module_directory, given, still) ==
    IF /\ FindVenvPathFromFile(lFs, module_directory).found
       /\ still
       /\ Arguments(component, given).ok
       /\ StripText(module_directory) # <<>>
    THEN ChildOutcomes ELSE {NotStarted}

SubprocessFetchOutput ==
    /\ \E module_directory \in ModuleDirectories, given \in FieldValuesGiven :
       \E still \in StillOutcomes(module_directory) :
       \E child \in ChildOutcomesOf("subprocess", module_directory, given, still) :
            Launch("subprocess", module_directory, given, still, child)
    /\ UNCHANGED lFs
    /\ UNCHANGED notLauncher

ScoreFetchOutput ==
    /\ \E module_directory \in ModuleDirectories, given \in FieldValuesGiven :
       \E still \in StillOutcomes(module_directory) :
       \E child \in ChildOutcomesOf("score", module_directory, given, still) :
            Launch("score", module_directory, given, still, child)
    /\ UNCHANGED lFs
    /\ UNCHANGED notLauncher

RouteGetRoute ==
    /\ \E module_directory \in ModuleDirectories, given \in FieldValuesGiven :
       \E still \in StillOutcomes(module_directory) :
       \E child \in ChildOutcomesOf("route", module_directory, given, still) :
            Launch("route", module_directory, given, still, child)
    /\ UNCHANGED lFs
    /\ UNCHANGED notLauncher

LauncherNext == SubprocessFetchOutput \/ ScoreFetchOutput \/ RouteGetRoute

\* Discovery alone: find_venv_path_from_file applied to a script path.
ScriptPaths ==
    ModuleDirectories \cup
        { <<"/", "s">>, <<"/", "p", "/", "s">>, <<"q", "/", "s">>,
          <<"/", "p", "/", "q", "/", "t", "/", "u", "/", "s">> }

VenvInit ==
    /\ lFs \in {[cwd |-> cwd, venv |-> venv] :
                    cwd \in {DirRoot, DirP}, venv \in [VenvDirs -> VenvKinds]}
    /\ lRun = LauncherIdle

Discover ==
    /\ \E file_path \in ScriptPaths :
        lRun' = [LauncherIdle EXCEPT
                    !.component = "discovery", !.status = "ok",
                    !.module_directory = file_path,
                    !.venv = FindVenvPathFromFile(lFs, file_path)]
    /\ UNCHANGED lFs
    /\ UNCHANGED notLauncher

\* ------------------------------------------------------ embedding adapter

\* The address _embed posts to.
UrlJina == "http://172.17.101.36:8086/embed"

\* url_embed values: unset, empty, and three addresses.
UrlUnset == "unset"
UrlsGiven == {UrlUnset, "", "http://u1/embed", "http://u2/embed", UrlJina}

\* Texts handed to the client; NotText stands for a value that is no str.
NotText == "<not a str>"
EmbedTexts == {"a", "b"}

NoEmbedClient == [built |-> FALSE, url_embedding |-> ""]

\* One request: session.post(url, json={"inputs": text}, headers=...)
Post(url, text) ==
    [method |-> "POST", url |-> url, inputs |-> text,
     content_type |-> "application/json"]

\* The address a client posts to.
PostUrl(client) == UrlJina

\* What the service answers: a list of vectors, an empty list, or
\* something that is no list.
Responses == {"list", "empty", "invalid"}

EmbedIdle ==
    [op |-> "none", status |-> "none", url_embed |-> UrlUnset, posts |-> <<>>,
     vectors |-> 0]

\* No client built yet.
EmbedInit ==
    /\ eClient = NoEmbedClient
    /\ eRun = EmbedIdle

\* The embedding variables while another component is checked.
EmbedIdleInit == EmbedInit

\* EmbedJina.build_embeddings
BuildEmbeddings ==
    /\ \E url_embed \in UrlsGiven :
        IF url_embed = UrlUnset \/ url_embed = ""
        THEN /\ eRun' = [EmbedIdle EXCEPT !.op = "build", !.url_embed = url_embed,
                                          !.status = "url_required"]
             /\ UNCHANGED eClient
        ELSE /\ eRun' = [EmbedIdle EXCEPT !.op = "build", !.url_embed = url_embed,
                                          !.status = "ok"]
             /\ eClient' = [built |-> TRUE, url_embedding |-> url_embed]
    /\ UNCHANGED notEmbed

\* EmbedModelJ._embed(text), as one step of an operation: the request is
\* posted, then the answer is looked at.
EmbedStatus(response) ==
    IF response = "list" THEN "ok"
    ELSE IF response = "empty" THEN "index_error"
    ELSE "invalid_response"

\* EmbedModelJ._embed called directly.
EmbedOne ==
    /\ eClient.built
    /\ \E text \in EmbedTexts, response \in Responses :
        eRun' = [EmbedIdle EXCEPT
                    !.op = "embed", !.url_embed = eClient.url_embedding,
                    !.posts = <<Post(PostUrl(eClient), text)>>,
                    !.status = EmbedStatus(response),
                    !.vectors = IF response = "list" THEN 1 ELSE 0]
    /\ UNCHANGED eClient
    /\ UNCHANGED notEmbed

\* EmbedModelJ.embed_query
EmbedQuery ==
    /\ eClient.built
    /\ \E text \in EmbedTexts, response \in Responses :
        eRun' = [EmbedIdle EXCEPT
                    !.op = "embed_query", !.url_embed = eClient.url_embedding,
                    !.posts = <<Post(PostUrl(eClient), text)>>,
                    !.status = EmbedStatus(response),
                    !.vectors = IF response = "list" THEN 1 ELSE 0]
    /\ UNCHANGED eClient
    /\ UNCHANGED notEmbed

\* The texts of a list up to its first element that is no str.
RECURSIVE TextsBeforeNotText(_)
TextsBeforeNotText(texts) ==
    IF texts = <<>> \/ Head(texts) = NotText THEN <<>>
    ELSE <<Head(texts)>> \o TextsBeforeNotText(Tail(texts))

\* EmbedModelJ.embed_documents: one request per text, in order, until a
\* text is no str or an answer is not usable (failing: the request whose
\* answer is bad, 0 for none).
EmbedDocumentsJ ==
    /\ eClient.built
    /\ \E texts \in SeqsUpTo(EmbedTexts \cup {NotText}, MaxTexts),
          response \in Responses, failing \in 0..MaxTexts :
        LET sendable == TextsBeforeNotText(texts)
            bad == response # "list" /\ failing \in 1..Len(sendable)
            sent == IF bad THEN SubSeq(sendable, 1, failing) ELSE sendable
        IN  /\ (response = "list") <=> (failing = 0)
            /\ failing <= Len(sendable)
            /\ eRun' = [EmbedIdle EXCEPT
                    !.op = "embed_documents",
                    !.url_embed = eClient.url_embedding,
                    !.posts = [i \in 1..Len(sent) |->
                                    Post(PostUrl(eClient), sent[i])],
                    !.status = IF bad THEN EmbedStatus(response)
                               ELSE IF Len(sendable) < Len(texts)
                               THEN "type_error" ELSE "ok",
                    !.vectors = IF bad THEN 0
                                ELSE IF Len(sendable) < Len(texts) THEN 0
                                ELSE Len(texts)]
    /\ UNCHANGED eClient
    /\ UNCHANGED notEmbed

EmbedNext == BuildEmbeddings \/ EmbedOne \/ EmbedQuery \/ EmbedDocumentsJ

\* ---------------------------------------------------------- specifications

InitFaiss == FaissInit /\ FilterIdle /\ ConfigInit /\ MongoInit /\ MilvusIdleInit
    /\ LauncherIdleInit
    /\ EmbedIdleInit
    /\ RaceIdleInit

SpecFaiss == InitFaiss /\ [][FaissNext]_vars

InitFilter == FilterInit /\ FaissInit /\ ConfigInit /\ MongoInit /\ MilvusIdleInit
    /\ LauncherIdleInit
    /\ EmbedIdleInit
    /\ RaceIdleInit

SpecFilter == InitFilter /\ [][ApplyFilter]_vars

InitConfig == ConfigInit /\ FaissInit /\ FilterIdle /\ MongoInit /\ MilvusIdleInit
    /\ LauncherIdleInit
    /\ EmbedIdleInit
    /\ RaceIdleInit

SpecConfig == InitConfig /\ [][ConfigNext]_vars

InitMongo == MongoInit /\ FaissInit /\ FilterIdle /\ ConfigInit /\ MilvusIdleInit
    /\ LauncherIdleInit
    /\ EmbedIdleInit
    /\ RaceIdleInit

SpecMongo == InitMongo /\ [][MongoNext]_vars

InitMilvus == MilvusInit /\ FaissInit /\ FilterIdle /\ ConfigInit /\ MongoInit
    /\ LauncherIdleInit
    /\ EmbedIdleInit
    /\ RaceIdleInit

SpecMilvus == InitMilvus /\ [][MilvusNext]_vars

InitLauncher == LauncherInit /\ FaissInit /\ FilterIdle /\ ConfigInit /\ MongoInit
    /\ MilvusIdleInit
    /\ EmbedIdleInit
    /\ RaceIdleInit

SpecLauncher == InitLauncher /\ [][LauncherNext]_vars

InitVenv == VenvInit /\ FaissInit /\ FilterIdle /\ ConfigInit /\ MongoInit
    /\ MilvusIdleInit
    /\ EmbedIdleInit
    /\ RaceIdleInit

SpecVenv == InitVenv /\ [][Discover]_vars

InitEmbed == EmbedInit /\ FaissInit /\ FilterIdle /\ ConfigInit /\ MongoInit
    /\ MilvusIdleInit
    /\ LauncherIdleInit
    /\ RaceIdleInit

SpecEmbed == InitEmbed /\ [][EmbedNext]_vars

InitCache == MongoInit /\ FaissInit /\ FilterIdle /\ ConfigInit /\ MilvusIdleInit
    /\ LauncherIdleInit
    /\ EmbedIdleInit
    /\ RaceIdleInit

SpecCache == InitCache /\ [][CacheNext]_vars

InitRace == RaceInit /\ MongoInit /\ FaissInit /\ FilterIdle /\ ConfigInit
    /\ MilvusIdleInit
    /\ LauncherIdleInit
    /\ EmbedIdleInit

SpecRace == InitRace /\ [][RaceNext]_vars

\* ------------------------------------------------------------- properties

\* What a successful Index run over the recorded ingest input must persist:
\* entry i holds id i-1 and the embedding of document i's text.
ExpectedEntries(ing) ==
    LET docs == Documents(ing)
    IN  [i \in 1..Len(docs) |->
            [id |-> i - 1, vec |-> EmbedVec(docs[i].page_content)]]

IndexRunOk == fRun.mode = "Index" /\ fRun.status = "ok"

\* C1: an Index run over n >= 1 normalised documents that completes returns
\* n records in input order; the record at 0-based position i carries
\* faiss_id = i (replacing any faiss_id the input had) next to the
\* document's text and other metadata, so the ids are exactly 0..n-1.
C1_FaissIdIsInputPosition ==
    IndexRunOk =>
        LET docs == Documents(fRun.ing)
            n == Len(docs)
        IN  /\ n >= 1
            /\ Len(fOut) = n
            /\ \A i \in 1..n :
                /\ fOut[i]["faiss_id"] = i - 1
                /\ fOut[i]["text"] = docs[i].page_content
                /\ \A key \in (DOMAIN docs[i].metadata) \ {"faiss_id"} :
                        fOut[i][key] = docs[i].metadata[key]
            /\ {fOut[i]["faiss_id"] : i \in 1..n} = 0..(n - 1)
            /\ \A i, j \in 1..n :
                    fOut[i]["faiss_id"] = fOut[j]["faiss_id"] => i = j

\* C1 witness: a run over MaxDocs documents, one of which came in with a
\* faiss_id of its own that differs from its position.
C1_Witness ==
    /\ IndexRunOk
    /\ Len(fOut) = MaxDocs
    /\ \E i \in 1..Len(fOut) :
        LET md == Documents(fRun.ing)[i].metadata
        IN  "faiss_id" \in DOMAIN md /\ md["faiss_id"] # i - 1

\* C2: after a successful Index run the index file holds exactly that run's
\* vectors, ids 0..n-1, whatever the file held before the run.
C2_IndexHoldsLastRunOnly ==
    IndexRunOk =>
        /\ indexFile.exists
        /\ Len(indexFile.entries) = Len(Documents(fRun.ing))
        /\ indexFile.entries = ExpectedEntries(fRun.ing)

\* C2 witness: a successful re-index of one document over a file that held
\* more vectors.
C2_Witness ==
    /\ IndexRunOk
    /\ fRun.existed
    /\ fRun.before > 1
    /\ Len(indexFile.entries) = 1

\* The pairs the filter must keep, stated with SelectSeq.
KeptPairs(pairs, threshold) ==
    LET Test(p) == p.id # -1 /\ p.dist > threshold
    IN  SelectSeq(pairs, Test)

C4_SearchAsksForMin ==
    fRun.mode = "Search" =>
        /\ (fRun.readIndex /\ fRun.status # "embed_raised") =>
                /\ fRun.k = Min(fRun.number_of_results, fRun.ntotal)
                /\ fRun.k = 0 =>
                        fOut = <<>> /\ ~fRun.searched /\ fRun.status = "ok"
                /\ fRun.k > 0 => fRun.searched /\ fRun.status = "ok"
        /\ fRun.searched => fRun.k > 0 /\ fRun.readIndex
        /\ fRun.number_of_results >= 0 => Len(fOut) <= fRun.number_of_results
        /\ fRun.number_of_results < 0 => fOut = <<>>
        /\ Len(fOut) <= fRun.before

\* C4 witness: a search asking for more results than the index holds vectors
\* that returned every vector of the index.
C4_Witness ==
    /\ fRun.mode = "Search"
    /\ fRun.searched
    /\ fRun.number_of_results > fRun.ntotal
    /\ fRun.ntotal >= 2
    /\ Len(fOut) = fRun.ntotal

\* A query that is absent, not text, or made of whitespace only.
AbsentOrBlank(q) ==
    q.kind # "str" \/ \A i \in 1..Len(q.text) : q.text[i] = " "

\* C5 as claimed: every Search run with an absent, non-text or blank query
\* returns the empty list, without an index read or an embedding call.
C5_BlankQueryReturnsEmpty ==
    (fRun.mode = "Search" /\ fRun.status # "persist_unset"
        /\ AbsentOrBlank(fRun.query)) =>
            /\ fRun.status = "ok"
            /\ fOut = <<>>
            /\ ~fRun.readIndex
            /\ fRun.embedCalls = 0

\* C5 amended: with an index file at the path, a Search run with an absent,
\* non-text or blank query returns the empty list without an index read or
\* an embedding call; without an index file it fails with index-not-found,
\* also without an index read or an embedding call.
C5_BlankQueryReturnsEmptyIfIndexExists ==
    (fRun.mode = "Search" /\ fRun.status # "persist_unset"
        /\ AbsentOrBlank(fRun.query)) =>
            /\ ~fRun.readIndex
            /\ fRun.embedCalls = 0
            /\ fOut = <<>>
            /\ fRun.existed => fRun.status = "ok"
            /\ ~fRun.existed => fRun.status = "index_not_found"

\* C5 witness: a whitespace-only query against an existing index.
C5_Witness ==
    /\ fRun.mode = "Search"
    /\ fRun.status = "ok"
    /\ fRun.existed
    /\ fRun.query = Query("str", <<" ", " ">>)
    /\ ~fRun.readIndex

\* Exactly one field group of the FAISS component is visible.
IndexGroupOnly(cfg) ==
    /\ cfg["ingest_data"]
    /\ ~cfg["search_query"]
    /\ ~cfg["number_of_results"]
    /\ ~cfg["similarity_threshold"]

SearchGroupOnly(cfg) ==
    /\ ~cfg["ingest_data"]
    /\ cfg["search_query"]
    /\ cfg["number_of_results"]
    /\ cfg["similarity_threshold"]

ModeUpdate(call) ==
    call.calls > 0 /\ call.field_name = "mode"
        /\ call.field_value \in {"Index", "Search"}

\* C6: from the declared defaults and after any update_build_config calls
\* exactly one field group of the FAISS component is visible, the one of
\* the last mode update (Index before any); a call that does not set mode
\* to Index or Search changes no visibility; no other field's flag changes.
C6_FaissExactlyOneGroupVisible ==
    /\ callF.mode = "Index" => IndexGroupOnly(cfgF)
    /\ callF.mode = "Search" => SearchGroupOnly(cfgF)
    /\ IndexGroupOnly(cfgF) \/ SearchGroupOnly(cfgF)
    /\ (callF.calls > 0 /\ ~ModeUpdate(callF)) => cfgF = callF.before
    /\ \A f \in (DOMAIN cfgF) \ {"ingest_data", "search_query",
                                 "number_of_results", "similarity_threshold"} :
            cfgF[f] = FaissDeclared[f]

\* C6 witness: a mode update to Search that hid the ingest field which the
\* update before had shown.
C6_Witness ==
    /\ ModeUpdate(callF)
    /\ callF.field_value = "Search"
    /\ IndexGroupOnly(callF.before)
    /\ SearchGroupOnly(cfgF)
    /\ callF.calls = MaxCalls

\* C7: setting mode to Index shows the Milvus ingest field and hides its
\* search-query and result-count fields; setting mode to Search does the
\* inverse.
C7_MilvusModeTogglesVisibility ==
    ModeUpdate(callM) =>
        /\ callM.field_value = "Index" =>
            cfgM["ingest_data"] /\ ~cfgM["search_query"]
                /\ ~cfgM["number_of_results"]
        /\ callM.field_value = "Search" =>
            ~cfgM["ingest_data"] /\ cfgM["search_query"]
                /\ cfgM["number_of_results"]

\* C8: an ingest of n payloads with batch_size b >= 1 issues ceil(n/b)
\* insert_many calls, each of b payloads except a last one of
\* n - b*(ceil(n/b)-1), that hold the payloads in input order; with n = 0
\* it issues none. The collection then holds the payloads.
C8_IngestIssuesCeilBatches ==
    (mRun.op = "ingest" /\ mRun.status = "ok" /\ mRun.batch_size >= 1) =>
        LET n == Len(mRun.data)
            b == mRun.batch_size
            calls == mRun.inserts
            c == (n + b - 1) \div b
        IN  /\ Len(calls) = c
            /\ \A i \in 1..(c - 1) : Len(calls[i]) = b
            /\ c >= 1 => Len(calls[c]) = n - b * (c - 1)
            /\ \A i \in 1..c : \A j \in 1..Len(calls[i]) :
                    calls[i][j] = mRun.data[(i - 1) * b + j]
            /\ \A i \in 1..Len(calls) : calls[i] # <<>>
            /\ n = 0 => calls = <<>>
            /\ mStore[mRun.target] = mRun.data

\* C8 witness: MaxRecs payloads in batches of two, the last batch partial.
C8_Witness ==
    /\ mRun.op = "ingest"
    /\ mRun.status = "ok"
    /\ mRun.batch_size = 2
    /\ Len(mRun.data) = MaxRecs
    /\ Len(mRun.inserts) = (MaxRecs + 1) \div 2
    /\ Len(mRun.inserts[Len(mRun.inserts)]) = 2 - (MaxRecs % 2)

\* The positions of the documents of coll that carry faiss_id = id.
WithId(coll, id) ==
    {i \in 1..Len(coll) : "faiss_id" \in DOMAIN coll[i] /\ coll[i]["faiss_id"] = id}

Lowest(S) == CHOOSE i \in S : \A j \in S : i <= j
Highest(S) == CHOOSE i \in S : \A j \in S : i >= j

InputIds(data) == {data[i]["faiss_id"] : i \in 1..Len(data)}

\* The positions of the input records with faiss_id = id.
InputsWithId(data, id) == {i \in 1..Len(data) : data[i]["faiss_id"] = id}

\* A bulk update that reached bulk_write happened in this step.
BulkStep ==
    mRun'.op = "bulk" /\ mRun'.status = "ok" /\ mRun'.data # <<>>

\* The document the input records with faiss_id = id leave behind when each
\* sets its own fields on base: every key of base and of those records,
\* with the value of the last record naming the key.
FieldsSet(base, data, id) ==
    LET recs == InputsWithId(data, id)
        keys == (DOMAIN base) \cup UNION {DOMAIN data[i] : i \in recs}
    IN  [k \in keys |->
            LET naming == {i \in recs : k \in DOMAIN data[i]}
            IN  IF naming = {} THEN base[k] ELSE data[Highest(naming)][k]]

\* What both readings of the bulk update agree on: documents no input
\* record matches first are untouched, no duplicate is inserted, and the
\* collection grows by the number of distinct input ids without a match.
BulkFrame(before, after, data) ==
    /\ Len(after) = Len(before)
            + Cardinality({id \in InputIds(data) : WithId(before, id) = {}})
    /\ \A i \in 1..Len(before) :
            (\A id \in InputIds(data) :
                WithId(before, id) = {} \/ i # Lowest(WithId(before, id)))
                => after[i] = before[i]
    /\ \A id \in InputIds(data) :
            Cardinality(WithId(after, id)) =
                IF WithId(before, id) = {} THEN 1
                ELSE Cardinality(WithId(before, id))

CallsNamed(calls, names) == {i \in 1..Len(calls) : calls[i].call \in names}

\* C10: a provisioning creates the database db_name if and only if it was
\* not listed, creates it at most once, and selects db_name exactly once,
\* after creating it and before any collection is listed, dropped or
\* created; afterwards the database exists and is the selected one.
C10_DatabaseCreatedIffMissing ==
    /\ \A k \in 1..Len(vRun.provs) :
        LET p == vRun.provs[k]
            created == CallsNamed(p.calls, {"create_database"})
            selected == CallsNamed(p.calls, {"using_database"})
            onCollections == CallsNamed(p.calls,
                    {"list_collections", "drop", "create_collection"})
        IN  /\ (created # {}) <=> (p.db \notin p.existing)
            /\ Cardinality(created) <= 1
            /\ Cardinality(selected) = 1
            /\ \A i \in created \cup selected : p.calls[i].arg = p.db
            /\ \A i \in created, j \in selected : i < j
            /\ onCollections # {}
            /\ \A i \in selected, j \in onCollections : i < j
    /\ vRun.provs # <<>> =>
            vRun.db_name \in vServer.dbs /\ vServer.using = vRun.db_name

\* C10 witness: a run on database d1 whose provisioning found d1 not
\* listed, created it and selected it.
C10_Witness ==
    /\ vRun.provs # <<>>
    /\ vRun.db_name = "d1"
    /\ "d1" \notin vRun.provs[1].existing
    /\ CallsNamed(vRun.provs[1].calls, {"create_database"}) # {}
    /\ "d1" \in vServer.dbs
    /\ vServer.using = "d1"

\* The text between the first and the last character of t that is not
\* whitespace.
Trimmed(t) ==
    LET solid == {i \in 1..Len(t) : t[i] \notin {" ", "\n"}}
    IN  IF solid = {} THEN <<>>
        ELSE SubSeq(t, CHOOSE i \in solid : \A j \in solid : i <= j,
                       CHOOSE i \in solid : \A j \in solid : j <= i)

\* a occurs in b as a contiguous piece.
IsInfix(a, b) ==
    \E i \in 0..(Len(b) - Len(a)) : SubSeq(b, i + 1, i + Len(a)) = a

\* The child process was started and has exited.
ChildExited == lRun.spawned /\ lRun.child.started

\* A run whose child exited 0 returns one record holding the trimmed stdout.
ExitZeroReturnsTrimmedStdout ==
    (ChildExited /\ lRun.child.exit = 0) =>
        /\ lRun.status = "ok"
        /\ lRun.out = [has |-> TRUE, output |-> Trimmed(lRun.child.stdout)]

AncestorChain(start) == {SubSeq(start, 1, k) : k \in 0..Len(start)}

\* The .venv of directory dir holds bin/python.
Qualifies(dir) == dir \in DOMAIN lFs.venv /\ lFs.venv[dir] = "python"

\* C12: discovery from a script path returns the .venv of the nearest
\* directory, among the script's directory and its ancestors, whose .venv
\* holds bin/python, and not-found exactly when none does; a .venv without
\* bin/python never matches.
C12_NearestVenvWithPython ==
    lRun.component = "discovery" =>
        LET chain == AncestorChain(StartDirectory(lFs, lRun.module_directory))
        IN  /\ lRun.venv.found <=> (\E d \in chain : Qualifies(d))
            /\ lRun.venv.found =>
                /\ lRun.venv.dir \in chain
                /\ Qualifies(lRun.venv.dir)
                /\ \A d \in chain : Qualifies(d) => Len(d) <= Len(lRun.venv.dir)

\* C12 witness: from /p/q/s, /p/q holds a .venv without bin/python and
\* both /p and / hold one with it; discovery returns the one of /p.
C12_Witness ==
    /\ lRun.component = "discovery"
    /\ lRun.module_directory = <<"/", "p", "/", "q", "/", "s">>
    /\ lFs.venv[DirPQ] = "bare"
    /\ lFs.venv[DirP] = "python"
    /\ lFs.venv[DirRoot] = "python"
    /\ lRun.venv = [found |-> TRUE, dir |-> DirP]

\* C13 as stated: a client built from URL U posts every request to U,
\* as a POST of {inputs: text}; a build with the URL unset fails and
\* builds no client.
C13_RequestsGoToConfiguredUrl ==
    /\ \A i \in 1..Len(eRun.posts) :
            /\ eRun.posts[i].method = "POST"
            /\ eRun.posts[i].inputs \in {"a", "b"}
            /\ eRun.posts[i].url = eClient.url_embedding
    /\ (eRun.op = "build" /\ eRun.url_embed \in {"unset", ""}) =>
            eRun.status = "url_required"

\* C14 as stated: in a sequential run sharing one cache at most one
\* client is ever constructed per database_url.
C14_OneClientConstructedPerUrl ==
    \A url \in {"u1", "u2"} : mBuilt[url] <= 1

\* One use of the store: an operation that called maybe_create_db.
CacheUsed == mRun'.op \notin {"none", "init"}

\* C14: a use whose database_url is in the cache constructs no client,
\* leaves the cache alone and obtains the handle of the configured names
\* from the cached client; a use that misses constructs at most one client
\* and stores it under database_url exactly when the attempt succeeds; a
\* failed attempt stores nothing. A stored client is never replaced, so at
\* most one client per database_url is ever stored.
C14_CachedClientReusedNeverReplaced ==
    [][CacheUsed =>
        LET url == mRun'.url
            ns == mRun'.ns
        IN  /\ \A u \in {"u1", "u2"} :
                /\ mCache[u] # <<"", 0>> => mCache'[u] = mCache[u]
                /\ u # url => mCache'[u] = mCache[u] /\ mBuilt'[u] = mBuilt[u]
            /\ mCache[url] # <<"", 0>> =>
                /\ mRun'.hit /\ ~mRun'.built
                /\ mBuilt'[url] = mBuilt[url]
                /\ mRun'.status # "invalid_name" =>
                        mInst'.collection =
                            [client |-> mCache[url], target |-> <<url, ns>>]
            /\ mCache[url] = <<"", 0>> =>
                /\ ~mRun'.hit
                /\ mBuilt'[url] \in {mBuilt[url], mBuilt[url] + 1}
                /\ mRun'.built <=> (mBuilt'[url] = mBuilt[url] + 1)
                /\ mRun'.status = "connect_failed" => mCache'[url] = <<"", 0>>
                /\ mRun'.status # "connect_failed" =>
                        /\ mRun'.built
                        /\ mCache'[url] = <<url, mBuilt[url] + 1>>
                        /\ mInst'.collection =
                            [client |-> mCache'[url], target |-> <<url, ns>>]
    ]_vars

\* C14 witness: the first client built for u1 was discarded by a failed
\* attempt, the second one is stored, and a later use with u1 and another
\* collection reuses it.
C14_Witness ==
    /\ mBuilt["u1"] = 2
    /\ mCache["u1"] = <<"u1", 2>>
    /\ mRun.op = "scan" /\ mRun.hit /\ mRun.status = "ok"
    /\ mRun.url = "u1" /\ mRun.ns = "c2"
    /\ mInst.collection = [client |-> <<"u1", 2>>, target |-> <<"u1", "c2">>]

C16_ProvisioningResetsDatabase ==
    \A k \in 1..Len(vRun.provs) :
        LET p == vRun.provs[k]
            drops == CallsNamed(p.calls, {"drop"})
            creates == CallsNamed(p.calls, {"create_collection"})
        IN  /\ {p.calls[i].arg : i \in drops} = p.listed
            /\ Cardinality(drops) = Cardinality(p.listed)
            /\ creates = {Len(p.calls)}
            /\ p.calls[Len(p.calls)].arg = p.collection
            /\ p.calls[Len(p.calls)].dimension = 768
            /\ \A c \in {"c1", "c2"} :
                    p.after[c] = IF c = p.collection THEN 0 ELSE 0 - 1

\* C16 witness: a provisioning for collection c1 in a database that held
\* c1 and c2: both were dropped and only an empty c1 is left.
C16_Witness ==
    /\ vRun.provs # <<>>
    /\ vRun.provs[1].listed = {"c1", "c2"}
    /\ vRun.provs[1].collection = "c1"
    /\ Cardinality(CallsNamed(vRun.provs[1].calls, {"drop"})) = 2
    /\ vRun.provs[1].after["c1"] = 0
    /\ vRun.provs[1].after["c2"] = 0 - 1

\* C20 as stated: a Search-mode run of main() drops no collection,
\* creates none and inserts no document: every collection holds after the
\* run the rows it held before.
C20_SearchLeavesDataUnchanged ==
    [][vRun'.op = "search" =>
        /\ vServer'.coll = vServer.coll
        /\ \A k \in 1..Len(vRun'.provs) :
                CallsNamed(vRun'.provs[k].calls,
                           {"drop", "create_collection"}) = {}
    ]_vars

\* A launcher run (not discovery alone).
LauncherRan == lRun.component \in {"subprocess", "score", "route"}

\* C17 as stated: in each launcher a module_directory that is blank after
\* trimming fails with the empty-module-directory error, and every
\* configuration or resource-not-found failure comes before any child
\* process is started.
C17_BlankDirectoryFailsAsEmpty ==
    LauncherRan =>
        /\ Trimmed(lRun.module_directory) = <<>> =>
                lRun.status = "empty_module_directory"
        /\ lRun.status \in {"no_venv", "no_interpreter", "bad_arguments",
                            "empty_module_directory"} =>
                ~lRun.spawned /\ lRun.command = <<>>

\* C18 as stated: the Official Website Score command has exactly the four
\* elements interpreter, script path, --query and the name_search value
\* itself, also when the value holds spaces; the Route Name Analyzer turns
\* a term of k words into k arguments after --query.
C18_ScoreKeepsValueAsOneArgument ==
    /\ (lRun.component = "score" /\ lRun.spawned) =>
            /\ Len(lRun.command) = 4
            /\ lRun.command[2] = lRun.module_directory
            /\ lRun.command[3] = <<"--query">>
            /\ lRun.command[4] = lRun.given.items[1]
    /\ (lRun.component = "route" /\ lRun.spawned /\ lRun.given.kind = "str") =>
            LET words == SplitText(lRun.given.items[1])
                n == Len(lRun.command)
            IN  /\ n > Len(words)
                /\ lRun.command[n - Len(words)] = <<"--query">>
                /\ SubSeq(lRun.command, n - Len(words) + 1, n) = words

\* An invocation that finished without a connection failure.
Finished(p) == rProc[p].pc = "done" /\ rProc[p].status # "connect_failed"

\* C19: invocations that interleave on an empty cache may each miss and
\* construct a client of their own; whatever the interleaving, an
\* invocation that finishes holds a handle for its own db_name and
\* collection_name on a constructed client, no client is shared by two
\* constructions, and the cache holds for a database_url the one client
\* stored last, or nothing when no invocation stored one.
C19_RaceEndsWithHandlesAndLastClient ==
    /\ \A p \in 1..MaxInvocations :
        Finished(p) =>
            LET h == rProc[p].collection
            IN  /\ h.target = <<rProc[p].url, rProc[p].ns>>
                /\ h.client[1] = rProc[p].url
                /\ h.client[2] \in 1..rShared.built[rProc[p].url]
    /\ \A p, q \in 1..MaxInvocations :
        (p # q /\ rProc[p].client # <<"", 0>>) =>
            rProc[p].client # rProc[q].client
    /\ \A url \in {"u1", "u2"} :
        IF rShared.last[url] = 0 THEN rShared.cache[url] = <<"", 0>>
        ELSE /\ rShared.cache[url] = rProc[rShared.last[url]].client
             /\ rProc[rShared.last[url]].status = "stored"
             /\ rProc[rShared.last[url]].url = url

\* C19 witness: two invocations with the same database_url both missed,
\* each constructed a client, both finished with a handle, and the cache
\* holds the client of the one that stored last - here the one that was
\* constructed first.
C19_Witness ==
    /\ rProc[1].url = "u1" /\ rProc[2].url = "u1"
    /\ rProc[1].status = "stored" /\ rProc[2].status = "stored"
    /\ rShared.built["u1"] = 2
    /\ rProc[1].client = <<"u1", 1>> /\ rProc[2].client = <<"u1", 2>>
    /\ rShared.last["u1"] = 1
    /\ rShared.cache["u1"] = <<"u1", 1>>

\* An Index run that got past get_persist_directory and then raised: no
\* documents to index, the embedding client raised or returned no
\* vectors, or the vectors did not match the ids.
IndexRunFailed ==
    /\ fRun.mode = "Index"
    /\ fRun.status \in {"no_documents", "embed_failed", "embed_raised",
                        "add_failed"}

\* C21: an Index run unlinks a pre-existing index file before it
\* validates its input, so after an Index run that fails (no documents to
\* index, no vectors from the embedding client) no index file is at the
\* path, whether or not an earlier Index run had written one, and a
\* Search run that follows at that path fails with index-not-found,
\* returns nothing and reads no index.
C21_FailedIndexRunLeavesNoIndexFile ==
    /\ [](IndexRunFailed => indexFile = NoFile)
    /\ [][(IndexRunFailed /\ fRun'.mode = "Search"
                /\ fRun'.status # "persist_unset") =>
            /\ fRun'.status = "index_not_found"
            /\ fRun'.existed = FALSE
            /\ fRun'.readIndex = FALSE
            /\ fOut' = <<>>
            /\ indexFile' = NoFile]_vars

\* C21 witness: an earlier Index run had written an index of two or more
\* vectors; the Index run just made found that file, was given documents
\* but got no vectors back, and left no file at the path.
C21_Witness ==
    /\ fRun.mode = "Index"
    /\ fRun.status = "embed_failed"
    /\ Documents(fRun.ing) # <<>>
    /\ fRun.existed
    /\ fRun.before >= 2
    /\ ~indexFile.exists

====
